---- MODULE Spec2Model ----
(***************************************************************************)
(* x-tracker: the change-detection pipeline.                               *)
(*                                                                         *)
(* State: the three SQLite relations (watched_accounts, following,         *)
(* follow_events), the notifications handed to the NotificationManager,    *)
(* and the position and locals of the tasks that bubbletea runs as         *)
(* commands: the reconciliation pass (Model.CheckAccounts), the add flow   *)
(* (Model.handleAddAccount) and remove (Model.handleRemoveByUsername).     *)
(* Every SQL statement or transaction is one atomic action and the tasks    *)
(* interleave between them.  StoreFollowings is two: it reads the current  *)
(* rows through the connection pool, outside its transaction, and then     *)
(* writes the difference in the transaction.                               *)
(***************************************************************************)
EXTENDS Integers, Sequences, FiniteSets, TLC

VARIABLES
    watched,      \* watched_accounts rows: [id, username]
    following,    \* following rows: <<watched_account_id, followed_user_id>>
    events,       \* follow_events rows in insertion order: [id, acc, uid, type]
    sent,         \* the messages the latest dispatch handed to the channels
    cfg,          \* config.Config flags and the NotificationManager's channels
    pass,         \* per pass task: position and locals of CheckAccounts
    budget,       \* commands and per-account steps still allowed (bound of the model)
    add,          \* the add flow: position and locals of handleAddAccount
    uiAccounts,   \* Model.accounts, the presentation layer's cached list
    recorded,     \* history: <<account, fetched set>> when the latest step of a
                  \* pass for the account brought the event log up to that set
    probe,        \* the latest direct call of a client or store operation:
                  \* [op, arg, out]
    fetched,      \* history: <<account, set>> for the set the most recent
                  \* successful GetFollowingIDs for the account returned
    remainingRequests,  \* Client.remainingRequests, the advisory quota counter
    timer,        \* the check timer, in seconds since startup: [on, now,
                  \* lastCheckTime, checkInterval, due, started]; due: when the
                  \* pending tea.Tick commands fire; started: history, when the
                  \* passes began.  Off where the timing is left open
    ui            \* Model.mode and Model.error of the presentation layer:
                  \* [mode, error]

vars == <<watched, following, events, sent, cfg, pass, budget, add, uiAccounts,
          recorded, probe, fetched, remainingRequests, timer, ui>>

----------------------------------------------------------------------------
(* Bounds of the model *)

\* per-account steps of the passes, when the passes run alone
MaxSteps == 2
\* add flows, remove commands and per-account steps of the passes together
MaxCommands == 2
\* rows of follow_events; pages of one following-ids fetch
MaxEvents == 4
MaxPages == 2
\* pages of the upstream when GetFollowingIDs is called on its own
MaxFetchPages == 3
\* calls of the store's operations, when they are called on their own
MaxCalls == 2
\* add flows, remove commands and per-account steps of the passes together,
\* over a database that holds accounts
MaxMixed == 3
\* the width of Client.remainingRequests (an int32) and of the int that
\* strconv.Atoi returns (64 bits), both scaled down
MaxCounterBits == 3
MaxIntBits == 4
\* the check interval in seconds, when the timer is modelled
MaxInterval == 2
\* passes in a row over one account
MaxFlips == 3
\* changed IDs of one notification; lookups of one notification that fail
MaxChanged == 26
MaxLookupFailures == 1
\* pages of the upstream and requests of one call, when the loop of
\* GetFollowingIDs is followed request by request
MaxCursorPages == 3
MaxRequests == 4
\* the IDs a notification enumerates at most (telegram.go: i >= 25, i < 25)
EnumerationCap == 25

Usernames == {"x", "y"}
IDs == {"u1", "u2"}
Passes == {1}
\* the passes that can be at work at once when the timer is modelled
TimedPasses == {1, 2}
Channels == <<"discord", "telegram">>

----------------------------------------------------------------------------
(* Helpers *)

Range(s) == {s[i] : i \in 1..Len(s)}

MaxOf(S) == CHOOSE m \in S : \A n \in S : n <= m

\* every ordering of a finite set (the iteration order of a Go map)
Orderings(S) ==
    {s \in [1..Cardinality(S) -> S] : \A i, j \in 1..Cardinality(S) : i # j => s[i] # s[j]}

\* rowid of an INTEGER PRIMARY KEY column without AUTOINCREMENT
NewRowId(ids) == IF ids = {} THEN 1 ELSE MaxOf(ids) + 1

NoAccount == [id |-> 0, username |-> ""]

RECURSIVE SortById(_)
SortById(S) ==
    IF S = {} THEN <<>>
    ELSE LET a == CHOOSE r \in S : \A q \in S : r.id <= q.id
         IN <<a>> \o SortById(S \ {a})

----------------------------------------------------------------------------
(* Upstream client *)

\* the pages a following-ids request sequence is served: page i answers the
\* request that carries cursor i (the first request carries none)
PageLists == {<<>>} \cup {<<i>> : i \in IDs}

Servers ==
    UNION {
      {s \in [1..n -> [ids : PageLists, ok : BOOLEAN, next : 0..MaxPages]] :
          /\ \A i \in 1..n : s[i].next = (IF i < n THEN i + 1 ELSE 0)
          /\ \A i \in 1..n : (~s[i].ok) => (i = n /\ s[i].ids = <<>>)}
      : n \in 1..MaxPages}

\* (variant: a failed page ends the loop and what was read so far is returned)
RECURSIVE PaginatePartial(_, _, _)
PaginatePartial(srv, cursor, allIDs) ==
    LET response == srv[cursor]
    IN  IF ~response.ok
        THEN [err |-> cursor = 1, IDs |-> allIDs]
        ELSE IF response.next = 0
             THEN [err |-> FALSE, IDs |-> allIDs \o response.ids]
             ELSE PaginatePartial(srv, response.next, allIDs \o response.ids)

\* (variant: the cursor is tested before the page is appended, so the IDs of
\* the last page are dropped)
RECURSIVE PaginateDropLast(_, _, _)
PaginateDropLast(srv, cursor, allIDs) ==
    LET response == srv[cursor]
    IN  IF ~response.ok
        THEN [err |-> TRUE, IDs |-> <<>>]
        ELSE IF response.next = 0
             THEN [err |-> FALSE, IDs |-> allIDs]
             ELSE PaginateDropLast(srv, response.next, allIDs \o response.ids)

RECURSIVE Paginate(_, _, _)
Paginate(srv, cursor, allIDs) ==
    LET response == srv[cursor]
    IN  IF ~response.ok
        THEN [err |-> TRUE, IDs |-> <<>>]
        ELSE IF response.next = 0
             THEN [err |-> FALSE, IDs |-> allIDs \o response.ids]
             ELSE Paginate(srv, response.next, allIDs \o response.ids)

GetFollowingIDs(srv) == Paginate(srv, 1, <<>>)

\* what the upstream served in all: used to state what a fetch must return
RECURSIVE ServedIDs(_)
ServedIDs(srv) == IF srv = <<>> THEN <<>> ELSE Head(srv).ids \o ServedIDs(Tail(srv))

AllPagesOk(srv) == \A i \in 1..Len(srv) : srv[i].ok

----------------------------------------------------------------------------
(* Snapshot store *)

GetWatchedAccounts == SortById(watched)

GetCurrentFollowings(F, acc) == {r[2] : r \in {q \in F : q[1] = acc}}

\* (variant: a query that yields no row is reported as an error)
QueryCurrentFollowingsErrNoRows(F, acc, queryFails) ==
    IF queryFails \/ GetCurrentFollowings(F, acc) = {}
    THEN [err |-> TRUE, rows |-> {}]
    ELSE [err |-> FALSE, rows |-> GetCurrentFollowings(F, acc)]

\* Database.GetCurrentFollowings with its error result: the error of the
\* query or of a scan, else the map filled by the rows.Next() loop
QueryCurrentFollowings(F, acc, queryFails) ==
    IF queryFails
    THEN [err |-> TRUE, rows |-> {}]
    ELSE [err |-> FALSE, rows |-> GetCurrentFollowings(F, acc)]

\* (variant: the rows of the table are replaced by those of the list)
StoreFollowingsReplaceAll(F, acc, currentFollowings, followingIDs) ==
    {<<acc, id>> : id \in Range(followingIDs)}

\* (variant: the new rows are inserted, the rows of the unfollows not deleted)
StoreFollowingsInsertOnly(F, acc, currentFollowings, followingIDs) ==
    F \cup {<<acc, id>> : id \in Range(followingIDs) \ currentFollowings}

\* the transaction of StoreFollowings, given the rows it read before: DELETE
\* what was read and is not in the list, INSERT OR IGNORE what is in the list
\* and was not read
StoreFollowings(F, acc, currentFollowings, followingIDs) ==
    LET newFollowingsMap == Range(followingIDs)
    IN  (F \ {<<acc, id>> : id \in currentFollowings \ newFollowingsMap})
          \cup {<<acc, id>> : id \in newFollowingsMap \ currentFollowings}

RECURSIVE InsertEvents(_, _, _, _)
InsertEvents(E, acc, ids, type) ==
    IF ids = <<>> THEN E
    ELSE InsertEvents(
           Append(E, [id |-> NewRowId({E[i].id : i \in 1..Len(E)}),
                      acc |-> acc, uid |-> Head(ids), type |-> type]),
           acc, Tail(ids), type)

\* (variant: the events of the account are replaced by those of the call)
StoreFollowEventsReplace(E, acc, follows, unfollows) ==
    InsertEvents(InsertEvents(SelectSeq(E, LAMBDA e : e.acc # acc), acc, follows, "follow"),
                 acc, unfollows, "unfollow")

\* (variant: an event is stored only if the log holds no event of the same
\* account, ID and type yet)
StoreFollowEventsOncePerID(E, acc, follows, unfollows) ==
    LET isNew(id, type) ==
            \A i \in 1..Len(E) : ~(E[i].acc = acc /\ E[i].uid = id /\ E[i].type = type)
    IN  InsertEvents(
          InsertEvents(E, acc, SelectSeq(follows, LAMBDA id : isNew(id, "follow")), "follow"),
          acc, SelectSeq(unfollows, LAMBDA id : isNew(id, "unfollow")), "unfollow")

StoreFollowEvents(E, acc, follows, unfollows) ==
    InsertEvents(InsertEvents(E, acc, follows, "follow"), acc, unfollows, "unfollow")

\* (variant: the INSERT goes through although the username is present)
AddWatchedAccountNoUnique(W, username) ==
    LET account == [id |-> NewRowId({a.id : a \in W}), username |-> username]
    IN  [err |-> FALSE, watched |-> W \cup {account}, account |-> account]

\* the INSERT of AddWatchedAccount: username is UNIQUE, the id is the rowid
AddWatchedAccount(W, username) ==
    IF \E a \in W : a.username = username
    THEN [err |-> TRUE, watched |-> W, account |-> NoAccount]
    ELSE LET account == [id |-> NewRowId({a.id : a \in W}), username |-> username]
         IN  [err |-> FALSE, watched |-> W \cup {account}, account |-> account]

RemoveWatchedAccountRows(W, id) == {a \in W : a.id # id}

\* (variant: the DELETE on following has no WHERE clause)
RemoveFollowingRowsAll(F, id) == {}

RemoveFollowingRows(F, id) == {r \in F : r[1] # id}

----------------------------------------------------------------------------
(* Set diff of CheckAccounts, and the same loops in ProcessFollowingChanges *)

\* (variant: every fetched ID is taken as new, the snapshot lookup dropped)
NewFollowsUnchecked(followingIDs, currentFollowings) == followingIDs

NewFollowsOf(followingIDs, currentFollowings) ==
    SelectSeq(followingIDs, LAMBDA id : id \notin currentFollowings)

\* the IDs of the second loop; the loop ranges over a map, in any order
UnfollowsOf(followingIDs, currentFollowings) ==
    currentFollowings \ Range(followingIDs)

\* (variant: the guard of the persistence branch always taken)
HasChangesAlways(newFollows, unfollows) == TRUE

HasChanges(newFollows, unfollows) == Len(newFollows) > 0 \/ Len(unfollows) > 0

ProcessNewFollows(newFollowingIDs, currentFollowings) ==
    SelectSeq(newFollowingIDs, LAMBDA id : id \notin currentFollowings)

ProcessUnfollows(newFollowingIDs, currentFollowings) ==
    {id \in currentFollowings : id \notin Range(newFollowingIDs)}

----------------------------------------------------------------------------
(* Notification dispatch *)

\* (variant: the error of a channel's send is returned at once, the channels
\* after it are not tried)
RECURSIVE ChannelSendsStopOnError(_, _, _, _, _)
ChannelSendsStopOnError(chs, acc, kind, ids, failed) ==
    IF chs = <<>> THEN <<>>
    ELSE IF Head(chs) \in cfg.channels
         THEN <<[ch |-> Head(chs), acc |-> acc, kind |-> kind, ids |-> ids,
                 ok |-> Head(chs) \notin failed]>>
                \o (IF Head(chs) \in failed THEN <<>>
                    ELSE ChannelSendsStopOnError(Tail(chs), acc, kind, ids, failed))
         ELSE ChannelSendsStopOnError(Tail(chs), acc, kind, ids, failed)

\* one send per active channel, Discord first; the send of a channel in
\* `failed` returns an error, which is logged
RECURSIVE ChannelSends(_, _, _, _, _)
ChannelSends(chs, acc, kind, ids, failed) ==
    IF chs = <<>> THEN <<>>
    ELSE (IF Head(chs) \in cfg.channels
          THEN <<[ch |-> Head(chs), acc |-> acc, kind |-> kind, ids |-> ids,
                  ok |-> Head(chs) \notin failed]>>
          ELSE <<>>) \o ChannelSends(Tail(chs), acc, kind, ids, failed)

NotifyNewFollows(acc, follows, failed) ==
    ChannelSends(Channels, acc, "follow", follows, failed)

NotifyUnfollows(acc, unfollows, failed) ==
    ChannelSends(Channels, acc, "unfollow", unfollows, failed)

\* (variant: one flag gates both directions)
DispatchOneFlag(acc, newFollows, unfollows, failedFollow, failedUnfollow) ==
    (IF cfg.follow /\ Len(newFollows) > 0
     THEN NotifyNewFollows(acc, newFollows, failedFollow) ELSE <<>>)
      \o (IF cfg.follow /\ Len(unfollows) > 0
          THEN NotifyUnfollows(acc, unfollows, failedUnfollow) ELSE <<>>)

\* failedFollow, failedUnfollow: the channels whose send of the follow
\* message, of the unfollow message, fails
Dispatch(acc, newFollows, unfollows, failedFollow, failedUnfollow) ==
    (IF cfg.follow /\ Len(newFollows) > 0
     THEN NotifyNewFollows(acc, newFollows, failedFollow) ELSE <<>>)
      \o (IF cfg.unfollow /\ Len(unfollows) > 0
          THEN NotifyUnfollows(acc, unfollows, failedUnfollow) ELSE <<>>)

----------------------------------------------------------------------------
(* Initial state: a fresh database, no task running *)

NoCall == [op |-> "none", arg |-> <<>>, out |-> <<>>]

NoTimer ==
    [on |-> FALSE, now |-> 0, lastCheckTime |-> 0, checkInterval |-> 0, due |-> {},
     started |-> <<>>]

\* NewModel: mode ModeNormal, no error shown
NormalUI == [mode |-> "Normal", error |-> <<>>]

\* case error: m.error = msg; the mode stays as it is
ShowError(u, msg) == [u EXCEPT !.error = msg]

IdlePass ==
    [pc |-> "idle", accounts |-> <<>>, idx |-> 0, followings |-> <<>>,
     served |-> <<>>, complete |-> TRUE, current |-> {}, newFollows |-> <<>>,
     unfollows |-> <<>>, evIds |-> {}, stored |-> {}, outcomes |-> <<>>]

IdleAdd ==
    [pc |-> "idle", account |-> NoAccount, followings |-> <<>>, stored |-> {},
     result |-> "none"]

Configs ==
    [follow : BOOLEAN, unfollow : BOOLEAN, channels : SUBSET Range(Channels)]

\* one channel configured, the notifications of both directions on or off
FlagConfigs == {c \in Configs : c.channels = {Head(Channels)} /\ c.follow = c.unfollow}

Init ==
    /\ watched = {}
    /\ following = {}
    /\ events = <<>>
    /\ sent = <<>>
    /\ cfg \in FlagConfigs
    /\ pass = [p \in Passes |-> IdlePass]
    /\ budget = MaxCommands
    /\ add = IdleAdd
    /\ uiAccounts = {}
    /\ recorded = {}
    /\ probe = NoCall
    /\ fetched = {}
    /\ remainingRequests = 0
    /\ ui = NormalUI
    /\ timer = NoTimer

----------------------------------------------------------------------------
(* The reconciliation pass: Model.CheckAccounts *)

Forget(R, acc) == {r \in R : r[1] # acc}

Record(R, acc, ids) == Forget(R, acc) \cup {<<acc, ids>>}

Account(p) == pass[p].accounts[pass[p].idx]

Outcomes == {"fetchErr", "readErr", "noChange", "eventsErr", "snapshotErr", "ok"}

FailedOutcomes == {"fetchErr", "readErr", "eventsErr", "snapshotErr"}

\* (variant: an error returns from the pass instead of continuing the loop)
NextAccountOrReturn(r, outcome) ==
    LET more == r.idx < Len(r.accounts) /\ outcome \notin FailedOutcomes
    IN  [r EXCEPT !.pc = IF more THEN "fetch" ELSE "idle",
                  !.idx = IF more THEN r.idx + 1 ELSE r.idx,
                  !.followings = <<>>, !.served = <<>>, !.complete = TRUE,
                  !.current = {}, !.newFollows = <<>>, !.unfollows = <<>>,
                  !.evIds = {}, !.stored = {},
                  !.outcomes = Append(r.outcomes, outcome)]

\* (variant: a failed step is tried again at once, for the same account)
NextAccountRetry(r, outcome) ==
    IF outcome \in FailedOutcomes
    THEN [r EXCEPT !.pc = "fetch",
                   !.followings = <<>>, !.served = <<>>, !.complete = TRUE,
                   !.current = {}, !.newFollows = <<>>, !.unfollows = <<>>,
                   !.evIds = {}, !.stored = {}]
    ELSE [r EXCEPT !.pc = IF r.idx < Len(r.accounts) THEN "fetch" ELSE "idle",
                   !.idx = IF r.idx < Len(r.accounts) THEN r.idx + 1 ELSE r.idx,
                   !.followings = <<>>, !.served = <<>>, !.complete = TRUE,
                   !.current = {}, !.newFollows = <<>>, !.unfollows = <<>>,
                   !.evIds = {}, !.stored = {},
                   !.outcomes = Append(r.outcomes, outcome)]

\* (variant: the loop ranges over the watched accounts as they are now)
NextAccountRelisting(r, outcome) ==
    LET accounts == GetWatchedAccounts
    IN  [r EXCEPT !.accounts = accounts,
                  !.pc = IF r.idx < Len(accounts) THEN "fetch" ELSE "idle",
                  !.idx = IF r.idx < Len(accounts) THEN r.idx + 1 ELSE r.idx,
                  !.followings = <<>>, !.served = <<>>, !.complete = TRUE,
                  !.current = {}, !.newFollows = <<>>, !.unfollows = <<>>,
                  !.evIds = {}, !.stored = {},
                  !.outcomes = Append(r.outcomes, outcome)]

\* `continue`, or the end of the loop body: on to the next listed account, or
\* the pass returns
NextAccount(r, outcome) ==
    [r EXCEPT !.pc = IF r.idx < Len(r.accounts) THEN "fetch" ELSE "idle",
              !.idx = IF r.idx < Len(r.accounts) THEN r.idx + 1 ELSE r.idx,
              !.followings = <<>>, !.served = <<>>, !.complete = TRUE,
              !.current = {}, !.newFollows = <<>>, !.unfollows = <<>>,
              !.evIds = {}, !.stored = {},
              !.outcomes = Append(r.outcomes, outcome)]

\* the tea.Tick that CheckAccounts returned fires and its function begins
TickFires ==
    IF timer.on
    THEN \E t \in timer.due :
            /\ t <= timer.now
            /\ timer' = [timer EXCEPT !.due = @ \ {t},
                                      !.started = Append(@, timer.now)]
    ELSE UNCHANGED timer

\* the timer fires and the pass lists the watched accounts
StartPass(p) ==
    /\ pass[p].pc = "idle"
    /\ Cardinality(watched) <= budget
    /\ \A q \in DOMAIN pass : pass[q].pc = "idle" => p <= q
    /\ TickFires
    /\ budget' = budget - Cardinality(watched)
    /\ \/ \* GetWatchedAccounts fails: the pass returns
          pass' = [pass EXCEPT ![p] = IdlePass]
       \/ LET accounts == GetWatchedAccounts
          IN  pass' = [pass EXCEPT ![p] =
                 [IdlePass EXCEPT !.accounts = accounts,
                                  !.pc = IF accounts = <<>> THEN "idle" ELSE "fetch",
                                  !.idx = IF accounts = <<>> THEN 0 ELSE 1]]
    /\ UNCHANGED <<watched, following, events, sent, cfg, add, uiAccounts, recorded, probe,
                   fetched, remainingRequests, ui>>

\* m.api.GetFollowingIDs(account.UserID)
FetchFollowings(p) ==
    /\ pass[p].pc = "fetch"
    /\ \E srv \in Servers :
         LET followings == GetFollowingIDs(srv)
         IN  /\ pass' = [pass EXCEPT ![p] =
                   IF followings.err
                   THEN [NextAccount(@, "fetchErr") EXCEPT !.served = ServedIDs(srv),
                                                           !.complete = AllPagesOk(srv)]
                   ELSE [@ EXCEPT !.pc = "read",
                                  !.followings = followings.IDs,
                                  !.served = ServedIDs(srv),
                                  !.complete = AllPagesOk(srv)]]
             /\ recorded' = IF followings.err THEN Forget(recorded, Account(p).id)
                                              ELSE recorded
             /\ fetched' = IF followings.err THEN fetched
                            ELSE Record(fetched, Account(p), Range(followings.IDs))
    /\ UNCHANGED <<watched, following, events, sent, cfg, budget, add, uiAccounts, probe,
                   remainingRequests, timer, ui>>

\* m.db.GetCurrentFollowings(account.ID) and the diff against the fetched list
ReadAndDiff(p) ==
    /\ pass[p].pc = "read"
    /\ \/ /\ pass' = [pass EXCEPT ![p] = NextAccount(@, "readErr")]
          /\ recorded' = Forget(recorded, Account(p).id)
       \/ LET currentFollowings == GetCurrentFollowings(following, Account(p).id)
              newFollows == NewFollowsOf(pass[p].followings, currentFollowings)
          IN  \E unfollows \in Orderings(UnfollowsOf(pass[p].followings, currentFollowings)) :
                IF HasChanges(newFollows, unfollows)
                THEN /\ pass' = [pass EXCEPT ![p] =
                           [@ EXCEPT !.pc = "events",
                                     !.current = currentFollowings,
                                     !.newFollows = newFollows,
                                     !.unfollows = unfollows]]
                     /\ UNCHANGED recorded
                ELSE /\ pass' = [pass EXCEPT ![p] = NextAccount(@, "noChange")]
                     /\ recorded' = Record(recorded, Account(p).id, Range(pass[p].followings))
    /\ UNCHANGED <<watched, following, events, sent, cfg, budget, add, uiAccounts, probe,
                   fetched, remainingRequests, timer, ui>>

\* m.db.StoreFollowEvents(account.ID, newFollows, unfollows): one transaction
StoreEvents(p) ==
    /\ pass[p].pc = "events"
    /\ \/ /\ pass' = [pass EXCEPT ![p] = NextAccount(@, "eventsErr")]
          /\ recorded' = Forget(recorded, Account(p).id)
          /\ UNCHANGED events
       \/ /\ Len(events) + Len(pass[p].newFollows) + Len(pass[p].unfollows) <= MaxEvents
          /\ events' = StoreFollowEvents(events, Account(p).id,
                                          pass[p].newFollows, pass[p].unfollows)
          /\ pass' = [pass EXCEPT ![p] =
                [@ EXCEPT !.pc = "snapshot",
                          !.evIds = {events'[i].id : i \in Len(events) + 1 .. Len(events')}]]
          /\ recorded' = Record(recorded, Account(p).id, Range(pass[p].followings))
    /\ UNCHANGED <<watched, following, sent, cfg, budget, add, uiAccounts, probe, fetched,
                   remainingRequests, timer, ui>>

\* m.db.StoreFollowings(account.ID, followings.IDs), a second transaction:
\* it begins and reads the current rows of the account
StoreSnapshotRead(p) ==
    /\ pass[p].pc = "snapshot"
    /\ \/ pass' = [pass EXCEPT ![p] = NextAccount(@, "snapshotErr")]
       \/ pass' = [pass EXCEPT ![p] =
             [@ EXCEPT !.pc = "write",
                       !.stored = GetCurrentFollowings(following, Account(p).id)]]
    /\ UNCHANGED <<watched, following, events, sent, cfg, budget, add, uiAccounts, recorded, probe,
                   fetched, remainingRequests, timer, ui>>

\* (variant: a failed snapshot write is logged and the step goes on to notify)
StoreSnapshotWriteNotifyOnError(p) ==
    /\ pass[p].pc = "write"
    /\ \/ /\ pass' = [pass EXCEPT ![p].pc = "notify"]
          /\ UNCHANGED following
       \/ /\ following' = StoreFollowings(following, Account(p).id, pass[p].stored,
                                          pass[p].followings)
          /\ pass' = [pass EXCEPT ![p].pc = "notify"]
    /\ UNCHANGED <<watched, events, sent, cfg, budget, add, uiAccounts, recorded, probe,
                   fetched, remainingRequests, timer, ui>>

\* the deletes and inserts of StoreFollowings, and its commit
StoreSnapshotWrite(p) ==
    /\ pass[p].pc = "write"
    /\ \/ /\ pass' = [pass EXCEPT ![p] = NextAccount(@, "snapshotErr")]
          /\ UNCHANGED following
       \/ /\ following' = StoreFollowings(following, Account(p).id, pass[p].stored,
                                          pass[p].followings)
          /\ pass' = [pass EXCEPT ![p].pc = "notify"]
    /\ UNCHANGED <<watched, events, sent, cfg, budget, add, uiAccounts, recorded, probe,
                   fetched, remainingRequests, timer, ui>>

\* the webhook notifications, after both writes
Notify(p) ==
    /\ pass[p].pc = "notify"
    /\ \E failedFollow \in SUBSET cfg.channels :
         \E failedUnfollow \in SUBSET cfg.channels :
            sent' = Dispatch(Account(p).id, pass[p].newFollows, pass[p].unfollows,
                             failedFollow, failedUnfollow)
    /\ pass' = [pass EXCEPT ![p] = NextAccount(@, "ok")]
    /\ UNCHANGED <<watched, following, events, cfg, budget, add, uiAccounts, recorded, probe,
                   fetched, remainingRequests, timer, ui>>

----------------------------------------------------------------------------
(* Keys: case tea.KeyMsg of Model.Update *)

Keys == {"a", "l", "r", "esc"}

\* the mode and the error after a key; the keys that only edit the text
\* input leave both alone
KeyMsg(u, key) ==
    IF u.mode = "Normal"
    THEN (IF key = "a" THEN [u EXCEPT !.mode = "AddAccount"]
          ELSE IF key = "l" THEN [u EXCEPT !.mode = "ListAccounts"]
          ELSE IF key = "r" THEN [u EXCEPT !.mode = "RemoveAccount"]
          ELSE u)
    ELSE (IF key = "esc" THEN [mode |-> "Normal", error |-> <<>>] ELSE u)

\* the keys that bring the presentation layer to a mode in which enter
\* issues a command: esc unless the mode is Normal or the wanted one, then
\* the key of the mode
ToMode(u, mode) ==
    IF u.mode = mode THEN u
    ELSE KeyMsg(KeyMsg(u, "esc"), IF mode = "AddAccount" THEN "a" ELSE "r")

----------------------------------------------------------------------------
(* The add flow: Model.handleAddAccount *)

\* enter in the add mode (with the keys that lead there): m.api.GetUser(username),
\* then m.db.AddWatchedAccount(account)
AddAccount(username) ==
    /\ add.pc = "idle"
    /\ budget > 0
    /\ budget' = budget - 1
    /\ \/ \* the lookup fails
          /\ add' = [IdleAdd EXCEPT !.result = "lookupErr"]
          /\ ui' = ShowError(ToMode(ui, "AddAccount"), <<"user lookup">>)
          /\ UNCHANGED watched
       \/ \* the INSERT fails on a storage error
          /\ add' = [IdleAdd EXCEPT !.result = "insertErr"]
          /\ ui' = ShowError(ToMode(ui, "AddAccount"), <<"insert">>)
          /\ UNCHANGED watched
       \/ LET inserted == AddWatchedAccount(watched, username)
          IN  /\ watched' = inserted.watched
              /\ add' = IF inserted.err
                        THEN [IdleAdd EXCEPT !.result = "insertErr"]
                        ELSE [IdleAdd EXCEPT !.pc = "fetch",
                                             !.account = inserted.account]
              /\ ui' = IF inserted.err
                       THEN ShowError(ToMode(ui, "AddAccount"), <<"insert">>)
                       ELSE ToMode(ui, "AddAccount")
    /\ UNCHANGED <<following, events, sent, cfg, pass, uiAccounts, recorded, probe,
                   fetched, remainingRequests, timer>>

\* m.api.GetFollowingIDs(account.UserID): the initial following list
AddFetch ==
    /\ add.pc = "fetch"
    /\ \E srv \in Servers :
         LET followings == GetFollowingIDs(srv)
         IN  /\ add' = IF followings.err
                       THEN [add EXCEPT !.pc = "idle", !.result = "fetchErr"]
                       ELSE [add EXCEPT !.pc = "store", !.followings = followings.IDs]
             /\ fetched' = IF followings.err THEN fetched
                            ELSE Record(fetched, add.account, Range(followings.IDs))
             /\ ui' = IF followings.err
                      THEN ShowError(ui, <<"getting initial followings">>)
                      ELSE ui
    /\ UNCHANGED <<watched, following, events, sent, cfg, pass, budget, uiAccounts, recorded, probe,
                   remainingRequests, timer>>

\* (variant: the initial list is recorded as a batch of follow events)
AddFlowEventsSeeded(E, acc, followingIDs) ==
    StoreFollowEvents(E, acc, followingIDs, <<>>)

\* the event rows the add flow writes for the initial list: none
AddFlowEvents(E, acc, followingIDs) == E

\* m.db.StoreFollowings(account.ID, followings.IDs): it begins and reads the
\* current rows of the account
AddStoreRead ==
    /\ add.pc = "store"
    /\ \/ /\ add' = [add EXCEPT !.pc = "idle", !.result = "storeErr",
                                 !.followings = <<>>]
          /\ ui' = ShowError(ui, <<"storing initial followings">>)
       \/ /\ add' = [add EXCEPT !.pc = "write",
                                 !.stored = GetCurrentFollowings(following, add.account.id)]
          /\ UNCHANGED ui
    /\ UNCHANGED <<watched, following, events, sent, cfg, pass, budget, uiAccounts, recorded, probe,
                   fetched, remainingRequests, timer>>

\* the deletes and inserts of StoreFollowings and its commit, then
\* m.mode = ModeNormal and m.loadAccounts()
AddStoreWrite ==
    /\ add.pc = "write"
    /\ \/ /\ add' = [add EXCEPT !.pc = "idle", !.result = "storeErr",
                                 !.followings = <<>>, !.stored = {}]
          /\ ui' = ShowError(ui, <<"storing initial followings">>)
          /\ UNCHANGED <<following, events, uiAccounts>>
       \/ /\ following' = StoreFollowings(following, add.account.id, add.stored,
                                          add.followings)
          /\ events' = AddFlowEvents(events, add.account.id, add.followings)
          /\ add' = [add EXCEPT !.pc = "idle", !.result = "ok",
                                 !.followings = <<>>, !.stored = {}]
          /\ \/ /\ uiAccounts' = watched
                /\ ui' = [ui EXCEPT !.mode = "Normal"]
             \/ \* GetWatchedAccounts fails in loadAccounts
                /\ ui' = ShowError([ui EXCEPT !.mode = "Normal"], <<"load accounts">>)
                /\ UNCHANGED uiAccounts
    /\ UNCHANGED <<watched, sent, cfg, pass, budget, recorded, probe, fetched,
                   remainingRequests, timer>>

----------------------------------------------------------------------------
(* Remove: Model.handleRemoveByUsername *)

RemoveByUsername(username) ==
    /\ budget > 0
    /\ budget' = budget - 1
    /\ \/ \* no such username in m.accounts
          /\ \A a \in uiAccounts : a.username # username
          /\ ui' = ShowError(ToMode(ui, "RemoveAccount"), <<"not found", username>>)
          /\ UNCHANGED <<watched, following, uiAccounts, recorded>>
       \/ \E account \in uiAccounts :
            /\ account.username = username
            /\ \/ \* RemoveWatchedAccount fails: the transaction rolls back
                  /\ ui' = ShowError(ToMode(ui, "RemoveAccount"), <<"remove">>)
                  /\ UNCHANGED <<watched, following, uiAccounts, recorded>>
               \/ /\ following' = RemoveFollowingRows(following, account.id)
                  /\ watched' = RemoveWatchedAccountRows(watched, account.id)
                  /\ recorded' = Forget(recorded, account.id)
                  /\ \/ /\ uiAccounts' = watched'
                        /\ ui' = [ToMode(ui, "RemoveAccount") EXCEPT !.mode = "Normal"]
                     \/ /\ ui' = ShowError([ToMode(ui, "RemoveAccount") EXCEPT !.mode = "Normal"],
                                            <<"load accounts">>)
                        /\ UNCHANGED uiAccounts
    /\ UNCHANGED <<events, sent, cfg, pass, add, probe, fetched, remainingRequests, timer>>

PressKey(key) ==
    /\ ui' = KeyMsg(ui, key)
    /\ UNCHANGED <<watched, following, events, sent, cfg, pass, budget, add, uiAccounts,
                   recorded, probe, fetched, remainingRequests, timer>>

----------------------------------------------------------------------------

Next ==
    \/ \E p \in Passes : StartPass(p)
    \/ \E p \in Passes : FetchFollowings(p)
    \/ \E p \in Passes : ReadAndDiff(p)
    \/ \E p \in Passes : StoreEvents(p)
    \/ \E p \in Passes : StoreSnapshotRead(p)
    \/ \E p \in Passes : StoreSnapshotWrite(p)
    \/ \E p \in Passes : Notify(p)
    \/ \E u \in Usernames : AddAccount(u)
    \/ AddFetch
    \/ AddStoreRead
    \/ AddStoreWrite
    \/ \E u \in Usernames : RemoveByUsername(u)

Spec == Init /\ [][Next]_vars

\* the same with the keys of the presentation layer pressed at any time
NextUI ==
    \/ Next
    \/ \E key \in Keys : PressKey(key)

SpecUI == Init /\ [][NextUI]_vars

----------------------------------------------------------------------------
(* The pass alone, over a database that earlier add flows have filled: one  *)
(* or two watched accounts, any snapshot for each, no event yet.            *)

SeededAccounts ==
    {{[id |-> 1, username |-> "x"]},
     {[id |-> 1, username |-> "x"], [id |-> 2, username |-> "y"]}}

InitSeeded ==
    /\ watched \in SeededAccounts
    /\ following \in SUBSET ({a.id : a \in watched} \X IDs)
    /\ events = <<>>
    /\ sent = <<>>
    /\ cfg \in Configs
    /\ pass = [p \in Passes |-> IdlePass]
    /\ budget = MaxSteps
    /\ add = IdleAdd
    /\ uiAccounts = watched
    /\ recorded = {}
    /\ probe = NoCall
    /\ fetched = {}
    /\ remainingRequests = 0
    /\ ui = NormalUI
    /\ timer = NoTimer

NextPass ==
    \/ \E p \in Passes : StartPass(p)
    \/ \E p \in Passes : FetchFollowings(p)
    \/ \E p \in Passes : ReadAndDiff(p)
    \/ \E p \in Passes : StoreEvents(p)
    \/ \E p \in Passes : StoreSnapshotRead(p)
    \/ \E p \in Passes : StoreSnapshotWrite(p)
    \/ \E p \in Passes : Notify(p)

SpecPass == InitSeeded /\ [][NextPass]_vars

----------------------------------------------------------------------------
(* The pass, the add flow and remove interleaved over a database that holds *)
(* two accounts, each with a snapshot: an account can be removed, and added *)
(* again, while a pass is at work on the accounts it listed.  No channel is *)
(* configured.                                                              *)

InitMixed ==
    /\ watched = {[id |-> 1, username |-> "x"], [id |-> 2, username |-> "y"]}
    /\ following = {a.id : a \in watched} \X IDs
    /\ events = <<>>
    /\ sent = <<>>
    /\ cfg = [follow |-> FALSE, unfollow |-> FALSE, channels |-> {}]
    /\ pass = [p \in Passes |-> IdlePass]
    /\ budget = MaxMixed
    /\ add = IdleAdd
    /\ uiAccounts = watched
    /\ recorded = {}
    /\ probe = NoCall
    /\ fetched = {}
    /\ remainingRequests = 0
    /\ ui = NormalUI
    /\ timer = NoTimer

SpecMixed == InitMixed /\ [][Next]_vars

----------------------------------------------------------------------------
(* GetFollowingIDs called on its own, against every upstream of up to        *)
(* MaxFetchPages pages: a page holds up to two IDs, may repeat an ID, may    *)
(* fail, and carries the cursor of the next page or zero; pages may exist    *)
(* past the one that carries zero.                                           *)

FetchPageLists ==
    {<<>>} \cup {<<i>> : i \in IDs} \cup {<<i, j>> : i \in IDs, j \in IDs}

\* a page is served with its IDs, or the request for it fails
FetchPages ==
    {[ids |-> l, ok |-> TRUE] : l \in FetchPageLists} \cup {[ids |-> <<>>, ok |-> FALSE]}

\* page i carries the cursor of page i + 1 where more[i], else zero
FetchServer(pages, more) ==
    [i \in 1..Len(pages) |->
        [ids |-> pages[i].ids, ok |-> pages[i].ok,
         next |-> IF i < Len(pages) /\ more[i] THEN i + 1 ELSE 0]]


CallGetFollowingIDs(srv) ==
    /\ probe = NoCall
    /\ probe' = [op |-> "GetFollowingIDs", arg |-> srv, out |-> GetFollowingIDs(srv)]
    /\ UNCHANGED <<watched, following, events, sent, cfg, pass, budget, add, uiAccounts,
                   recorded, fetched, remainingRequests, timer, ui>>

InitFetch ==
    /\ watched = {}
    /\ following = {}
    /\ events = <<>>
    /\ sent = <<>>
    /\ cfg \in {c \in FlagConfigs : c.follow /\ c.unfollow}
    /\ pass = [p \in Passes |-> IdlePass]
    /\ budget = 0
    /\ add = IdleAdd
    /\ uiAccounts = {}
    /\ recorded = {}
    /\ probe = NoCall
    /\ fetched = {}
    /\ remainingRequests = 0
    /\ ui = NormalUI
    /\ timer = NoTimer

\* the one call of this specification, against any upstream of 1..MaxFetchPages pages
NextFetch ==
    /\ probe = NoCall
    /\ \E n \in 1..MaxFetchPages :
         \E pages \in [1..n -> FetchPages], more \in [1..n -> BOOLEAN] :
            CallGetFollowingIDs(FetchServer(pages, more))

SpecFetch == InitFetch /\ [][NextFetch]_vars

----------------------------------------------------------------------------
(* Passes in a row over one account that followed nobody when it was added: *)
(* an ID can enter the fetched set, leave it and enter it again.            *)

InitFlips ==
    /\ watched = {[id |-> 1, username |-> "x"]}
    /\ following = {}
    /\ events = <<>>
    /\ sent = <<>>
    /\ cfg = [follow |-> FALSE, unfollow |-> FALSE, channels |-> {}]
    /\ pass = [p \in Passes |-> IdlePass]
    /\ budget = MaxFlips
    /\ add = IdleAdd
    /\ uiAccounts = watched
    /\ recorded = {}
    /\ probe = NoCall
    /\ fetched = {}
    /\ remainingRequests = 0
    /\ ui = NormalUI
    /\ timer = NoTimer

SpecFlips == InitFlips /\ [][NextPass]_vars

----------------------------------------------------------------------------
(* The check timer and the passes it starts, over a database that holds one *)
(* account.  Time is counted in seconds since startup; checkTimerMsg comes  *)
(* once a second (tea.Every); every command runs in a goroutine of its own, *)
(* so a pass takes any time and the timer goes on meanwhile.                *)

\* Update on checkTimerMsg: once elapsed >= checkInterval, the command of
\* CheckAccounts is issued, a tea.Tick of CheckInterval around the pass, and
\* lastCheckTime is set.  A tea.Tick that is due fires before time goes on.
CheckTimerMsg ==
    /\ timer.on
    /\ timer.now < 3 * MaxInterval
    /\ \A t \in timer.due : t > timer.now
    /\ LET now == timer.now + 1
           elapsed == now - timer.lastCheckTime
       IN  timer' = IF elapsed >= timer.checkInterval
                    THEN [timer EXCEPT !.now = now,
                                       !.lastCheckTime = now,
                                       !.due = @ \cup {now + timer.checkInterval}]
                    ELSE [timer EXCEPT !.now = now]
    /\ UNCHANGED <<watched, following, events, sent, cfg, pass, budget, add, uiAccounts,
                   recorded, probe, fetched, remainingRequests, ui>>

InitTimer ==
    /\ watched = {[id |-> 1, username |-> "x"]}
    /\ following = {}
    /\ events = <<>>
    /\ sent = <<>>
    /\ cfg = [follow |-> FALSE, unfollow |-> FALSE, channels |-> {}]
    /\ pass = [p \in TimedPasses |-> IdlePass]
    /\ budget = MaxSteps
    /\ add = IdleAdd
    /\ uiAccounts = watched
    /\ recorded = {}
    /\ probe = NoCall
    /\ fetched = {}
    /\ remainingRequests = 0
    /\ ui = NormalUI
    /\ \E checkInterval \in 1..MaxInterval :
          timer = [NoTimer EXCEPT !.on = TRUE, !.checkInterval = checkInterval]

NextTimer ==
    \/ CheckTimerMsg
    \/ \E p \in TimedPasses : StartPass(p)
    \/ \E p \in TimedPasses : FetchFollowings(p)
    \/ \E p \in TimedPasses : ReadAndDiff(p)
    \/ \E p \in TimedPasses : StoreEvents(p)
    \/ \E p \in TimedPasses : StoreSnapshotRead(p)
    \/ \E p \in TimedPasses : StoreSnapshotWrite(p)
    \/ \E p \in TimedPasses : Notify(p)

SpecTimer == InitTimer /\ [][NextTimer]_vars

----------------------------------------------------------------------------
(* Client.doRequest called on its own, again and again, with any response:  *)
(* the rate-limit header absent, not a number, or a number inside or        *)
(* outside the range of int; any status; or no response at all.             *)

\* the value of the x-ratelimit-requests-remaining header of a response
Headers ==
    {[present |-> FALSE, number |-> FALSE, value |-> 0],
     [present |-> TRUE, number |-> FALSE, value |-> 0]}
      \cup {[present |-> TRUE, number |-> TRUE, value |-> n] :
               n \in -(2^MaxIntBits) .. 2^MaxIntBits}

\* strconv.Atoi: an error for what is no number and for a number outside int
Atoi(remaining) ==
    IF remaining.number /\ remaining.value \in -(2^(MaxIntBits - 1)) .. (2^(MaxIntBits - 1) - 1)
    THEN [err |-> FALSE, count |-> remaining.value]
    ELSE [err |-> TRUE, count |-> 0]

\* the conversion int32(count): the low bits, two's complement
Int32(count) ==
    ((count + 2^(MaxCounterBits - 1)) % 2^MaxCounterBits) - 2^(MaxCounterBits - 1)

\* the counter after a response: atomic.StoreInt32 when the header is there
\* and Atoi takes it
StoreRemaining(counter, remaining) ==
    IF remaining.present /\ ~Atoi(remaining).err
    THEN Int32(Atoi(remaining).count)
    ELSE counter

RemainingRequests == remainingRequests

\* c.httpClient.Do fails (no response), or a response with this header and
\* status arrives; the counter's value is not consulted before the request
DoRequest(transportFails, remaining, statusOK) ==
    /\ remainingRequests' = IF transportFails THEN remainingRequests
                             ELSE StoreRemaining(remainingRequests, remaining)
    /\ probe' = [op |-> "doRequest",
                 arg |-> [transportFails |-> transportFails, remaining |-> remaining,
                          statusOK |-> statusOK],
                 out |-> [err |-> transportFails \/ ~statusOK]]
    /\ UNCHANGED <<watched, following, events, sent, cfg, pass, budget, add, uiAccounts,
                   recorded, fetched, timer, ui>>

InitQuota ==
    /\ watched = {}
    /\ following = {}
    /\ events = <<>>
    /\ sent = <<>>
    /\ cfg \in {c \in FlagConfigs : c.follow /\ c.unfollow}
    /\ pass = [p \in Passes |-> IdlePass]
    /\ budget = 0
    /\ add = IdleAdd
    /\ uiAccounts = {}
    /\ recorded = {}
    /\ probe = NoCall
    /\ fetched = {}
    /\ remainingRequests = 0
    /\ ui = NormalUI
    /\ timer = NoTimer

NextQuota ==
    \E transportFails, statusOK \in BOOLEAN : \E remaining \in Headers :
        DoRequest(transportFails, remaining, statusOK)

SpecQuota == InitQuota /\ [][NextQuota]_vars

----------------------------------------------------------------------------
(* The operations of the store called on their own, one after the other,     *)
(* with any arguments, on a database that holds no, one or two accounts and  *)
(* any snapshot for them.                                                    *)

\* ID lists of up to two entries, repeats included
IDLists == FetchPageLists

\* the account ids a call names: watched, or no longer or never watched
StoreIds == 1..Cardinality(Usernames)

Called(op, arg, err, id) ==
    [op |-> op, arg |-> arg, out |-> [err |-> err, id |-> id]]

CallAddWatchedAccount(username) ==
    /\ budget > 0
    /\ budget' = budget - 1
    /\ \/ \* a storage error
          /\ probe' = Called("AddWatchedAccount", username, TRUE, 0)
          /\ UNCHANGED watched
       \/ LET inserted == AddWatchedAccount(watched, username)
          IN  /\ watched' = inserted.watched
              /\ probe' = Called("AddWatchedAccount", username, inserted.err,
                                 inserted.account.id)
    /\ UNCHANGED <<following, events, sent, cfg, pass, add, uiAccounts, recorded, fetched,
                   remainingRequests, timer, ui>>

\* one transaction: DELETE the following rows, DELETE the account row, commit;
\* a DELETE that matches no row is no error
CallRemoveWatchedAccount(id) ==
    /\ budget > 0
    /\ budget' = budget - 1
    /\ \/ \* a statement or the commit fails: the transaction rolls back
          /\ probe' = Called("RemoveWatchedAccount", id, TRUE, id)
          /\ UNCHANGED <<watched, following>>
       \/ /\ following' = RemoveFollowingRows(following, id)
          /\ watched' = RemoveWatchedAccountRows(watched, id)
          /\ probe' = Called("RemoveWatchedAccount", id, FALSE, id)
    /\ UNCHANGED <<events, sent, cfg, pass, add, uiAccounts, recorded, fetched,
                   remainingRequests, timer, ui>>

CallStoreFollowings(acc, followingIDs) ==
    /\ budget > 0
    /\ budget' = budget - 1
    /\ \/ /\ probe' = Called("StoreFollowings", <<acc, followingIDs>>, TRUE, acc)
          /\ UNCHANGED following
       \/ /\ following' = StoreFollowings(following, acc,
                                          GetCurrentFollowings(following, acc),
                                          followingIDs)
          /\ probe' = Called("StoreFollowings", <<acc, followingIDs>>, FALSE, acc)
    /\ UNCHANGED <<watched, events, sent, cfg, pass, add, uiAccounts, recorded, fetched,
                   remainingRequests, timer, ui>>

CallStoreFollowEvents(acc, follows, unfollows) ==
    /\ budget > 0
    /\ budget' = budget - 1
    /\ \/ /\ probe' = Called("StoreFollowEvents", <<acc, follows, unfollows>>, TRUE, acc)
          /\ UNCHANGED events
       \/ /\ Len(events) + Len(follows) + Len(unfollows) <= MaxEvents
          /\ events' = StoreFollowEvents(events, acc, follows, unfollows)
          /\ probe' = Called("StoreFollowEvents", <<acc, follows, unfollows>>, FALSE, acc)
    /\ UNCHANGED <<watched, following, sent, cfg, pass, add, uiAccounts, recorded,
                   fetched, remainingRequests, timer, ui>>

\* a read: the store is left as it is
CallGetCurrentFollowings(acc, queryFails) ==
    /\ budget > 0
    /\ budget' = budget - 1
    /\ probe' = [op |-> "GetCurrentFollowings", arg |-> <<acc, queryFails>>,
                 out |-> QueryCurrentFollowings(following, acc, queryFails)]
    /\ UNCHANGED <<watched, following, events, sent, cfg, pass, add, uiAccounts, recorded,
                   fetched, remainingRequests, timer, ui>>

InitStore ==
    /\ watched \in {{}} \cup SeededAccounts
    /\ following \in SUBSET ({a.id : a \in watched} \X IDs)
    /\ events = <<>>
    /\ sent = <<>>
    /\ cfg \in {c \in FlagConfigs : c.follow /\ c.unfollow}
    /\ pass = [p \in Passes |-> IdlePass]
    /\ budget = MaxCalls
    /\ add = IdleAdd
    /\ uiAccounts = watched
    /\ recorded = {}
    /\ probe = NoCall
    /\ fetched = {}
    /\ remainingRequests = 0
    /\ ui = NormalUI
    /\ timer = NoTimer

NextStore ==
    \/ \E u \in Usernames : CallAddWatchedAccount(u)
    \/ \E id \in StoreIds : CallRemoveWatchedAccount(id)
    \/ \E acc \in StoreIds : \E followingIDs \in IDLists :
          CallStoreFollowings(acc, followingIDs)
    \/ \E acc \in StoreIds : \E follows, unfollows \in PageLists :
          CallStoreFollowEvents(acc, follows, unfollows)
    \/ \E acc \in StoreIds : \E queryFails \in BOOLEAN :
          CallGetCurrentFollowings(acc, queryFails)

SpecStore == InitStore /\ [][NextStore]_vars

\* the store's operations over a database in which a pass has recorded that
\* x, added when it followed nobody, follows u1
InitReuse ==
    /\ watched = {[id |-> 1, username |-> "x"]}
    /\ following = {<<1, "u1">>}
    /\ events = StoreFollowEvents(<<>>, 1, <<"u1">>, <<>>)
    /\ sent = <<>>
    /\ cfg \in {c \in FlagConfigs : c.follow /\ c.unfollow}
    /\ pass = [p \in Passes |-> IdlePass]
    /\ budget = MaxCalls
    /\ add = IdleAdd
    /\ uiAccounts = watched
    /\ recorded = {}
    /\ probe = NoCall
    /\ fetched = {}
    /\ remainingRequests = 0
    /\ ui = NormalUI
    /\ timer = NoTimer

SpecReuse == InitReuse /\ [][NextStore]_vars

----------------------------------------------------------------------------
(* The messages of the two channels, built on their own.  The changed IDs   *)
(* are numbers here; `failing` holds the IDs whose GetUserByID fails.       *)

\* one entry of the enumeration: "%d. ID: %s" or "%d. @%s (%d followers)"
\* (Telegram), a field "New Follow %d" with the bare ID or "@name" (Discord)
Line(i, userID, failing) ==
    [n |-> i, shown |-> IF userID \in failing THEN "id" ELSE "name", user |-> userID]

NoLines == [lines |-> <<>>, lookups |-> <<>>]

\* (variant: every ID is enumerated)
RECURSIVE TelegramEnumerateAll(_, _, _, _)
TelegramEnumerateAll(ids, i, failing, out) ==
    IF i > Len(ids) THEN out
    ELSE TelegramEnumerateAll(ids, i + 1, failing,
            [lines |-> Append(out.lines, Line(i, ids[i], failing)),
             lookups |-> Append(out.lookups, ids[i])])

\* the loop of TelegramWebhook.NotifyNewFollows and NotifyUnfollows; i counts
\* from 1, the code's index from 0
RECURSIVE TelegramEnumerate(_, _, _, _)
TelegramEnumerate(ids, i, failing, out) ==
    IF i > Len(ids) \/ i - 1 >= EnumerationCap THEN out
    ELSE TelegramEnumerate(ids, i + 1, failing,
            [lines |-> Append(out.lines, Line(i, ids[i], failing)),
             lookups |-> Append(out.lookups, ids[i])])

\* (variant: the enumeration ends at the first lookup that fails)
RECURSIVE DiscordEnumerateStopOnError(_, _, _, _)
DiscordEnumerateStopOnError(ids, i, failing, out) ==
    IF i > Len(ids) THEN out
    ELSE IF i - 1 < EnumerationCap
         THEN IF ids[i] \in failing
              THEN [lines |-> out.lines, lookups |-> Append(out.lookups, ids[i])]
              ELSE DiscordEnumerateStopOnError(ids, i + 1, failing,
                      [lines |-> Append(out.lines, Line(i, ids[i], failing)),
                       lookups |-> Append(out.lookups, ids[i])])
         ELSE DiscordEnumerateStopOnError(ids, i + 1, failing, out)

\* the loop of DiscordWebhook.NotifyNewFollows and NotifyUnfollows: it runs
\* over the whole list and skips the entries from the cap on
RECURSIVE DiscordEnumerate(_, _, _, _)
DiscordEnumerate(ids, i, failing, out) ==
    IF i > Len(ids) THEN out
    ELSE IF i - 1 < EnumerationCap
         THEN DiscordEnumerate(ids, i + 1, failing,
                 [lines |-> Append(out.lines, Line(i, ids[i], failing)),
                  lookups |-> Append(out.lookups, ids[i])])
         ELSE DiscordEnumerate(ids, i + 1, failing, out)

\* what a notifier hands to its send, the lookups it made, the error it returns
Notification(title, username, ids, enumerated, sendFails) ==
    [message |-> [title |-> title, username |-> username, count |-> Len(ids),
                  lines |-> enumerated.lines],
     lookups |-> enumerated.lookups,
     err |-> sendFails]

TelegramNotifyNewFollows(username, follows, failing, sendFails) ==
    Notification("New Follows Detected", username, follows,
                 TelegramEnumerate(follows, 1, failing, NoLines), sendFails)

TelegramNotifyUnfollows(username, unfollows, failing, sendFails) ==
    Notification("Unfollows Detected", username, unfollows,
                 TelegramEnumerate(unfollows, 1, failing, NoLines), sendFails)

DiscordNotifyNewFollows(username, follows, failing, sendFails) ==
    Notification("New Follows Detected", username, follows,
                 DiscordEnumerate(follows, 1, failing, NoLines), sendFails)

DiscordNotifyUnfollows(username, unfollows, failing, sendFails) ==
    Notification("Unfollows Detected", username, unfollows,
                 DiscordEnumerate(unfollows, 1, failing, NoLines), sendFails)

CallNotifier(ch, kind, ids, failing, sendFails, out) ==
    /\ probe = NoCall
    /\ probe' = [op |-> "Notify", arg |-> <<ch, kind, ids, failing, sendFails>>,
                 out |-> out]
    /\ UNCHANGED <<watched, following, events, sent, cfg, pass, budget, add, uiAccounts,
                   recorded, fetched, remainingRequests, timer, ui>>

CallTelegramNotifyNewFollows(follows, failing, sendFails) ==
    CallNotifier("telegram", "follow", follows, failing, sendFails,
                 TelegramNotifyNewFollows("x", follows, failing, sendFails))

CallTelegramNotifyUnfollows(unfollows, failing, sendFails) ==
    CallNotifier("telegram", "unfollow", unfollows, failing, sendFails,
                 TelegramNotifyUnfollows("x", unfollows, failing, sendFails))

CallDiscordNotifyNewFollows(follows, failing, sendFails) ==
    CallNotifier("discord", "follow", follows, failing, sendFails,
                 DiscordNotifyNewFollows("x", follows, failing, sendFails))

CallDiscordNotifyUnfollows(unfollows, failing, sendFails) ==
    CallNotifier("discord", "unfollow", unfollows, failing, sendFails,
                 DiscordNotifyUnfollows("x", unfollows, failing, sendFails))

\* the changed IDs 1..n in rising or in falling order
ChangedList(n, rising) == [i \in 1..n |-> IF rising THEN i ELSE n + 1 - i]

InitMessage ==
    /\ watched = {[id |-> 1, username |-> "x"]}
    /\ following = {}
    /\ events = <<>>
    /\ sent = <<>>
    /\ cfg = [follow |-> TRUE, unfollow |-> TRUE, channels |-> Range(Channels)]
    /\ pass = [p \in Passes |-> IdlePass]
    /\ budget = 0
    /\ add = IdleAdd
    /\ uiAccounts = watched
    /\ recorded = {}
    /\ probe = NoCall
    /\ fetched = {}
    /\ remainingRequests = 0
    /\ ui = NormalUI
    /\ timer = NoTimer

\* one notification of 1..MaxChanged IDs, of which at most MaxLookupFailures
\* cannot be looked up (0 stands for no ID)
NextMessage ==
    /\ probe = NoCall
    /\ \E n \in 1..MaxChanged : \E rising, sendFails \in BOOLEAN :
         \E f \in [1..MaxLookupFailures -> 0..n] :
            LET ids == ChangedList(n, rising)
                failing == {f[k] : k \in 1..MaxLookupFailures} \ {0}
            IN  \/ CallTelegramNotifyNewFollows(ids, failing, sendFails)
                \/ CallTelegramNotifyUnfollows(ids, failing, sendFails)
                \/ CallDiscordNotifyNewFollows(ids, failing, sendFails)
                \/ CallDiscordNotifyUnfollows(ids, failing, sendFails)

SpecMessage == InitMessage /\ [][NextMessage]_vars

----------------------------------------------------------------------------
(* GetFollowingIDs request by request.  Page i of the upstream answers the  *)
(* request with cursor FormatInt(i), page 1 also the request without one;   *)
(* a page names any page, itself or an earlier one included, as the next.   *)

Digits == <<"0", "1", "2", "3", "4", "5", "6", "7", "8", "9">>

\* next_cursor_str of a response whose next_cursor is n
FormatInt(n) == Digits[n + 1]

CursorPage(i, ok, next) ==
    [ids |-> <<i>>, ok |-> ok, next_cursor |-> next, next_cursor_str |-> FormatInt(next)]

\* the request for page failAt fails (0: none does)
CursorServer(failAt, next) == [i \in DOMAIN next |-> CursorPage(i, i # failAt, next[i])]

\* the response to a request with this cursor parameter
Serve(srv, cursor) ==
    IF cursor = "none" THEN srv[1]
    ELSE srv[CHOOSE i \in DOMAIN srv : FormatInt(i) = cursor]

\* (variant: the cursor is never added to the request)
CursorParamNever(nextCursor) == "none"

\* the cursor parameter of the request: none while nextCursor is "0"
CursorParam(nextCursor) == IF nextCursor # "0" THEN nextCursor ELSE "none"

\* var allIDs; nextCursor := "0"; for { ...
StartGetFollowingIDs(srv) ==
    /\ probe = NoCall
    /\ probe' = [op |-> "GetFollowingIDs", arg |-> srv,
                 out |-> [pc |-> "loop", nextCursor |-> "0", allIDs |-> <<>>,
                          requests |-> <<>>, err |-> FALSE]]
    /\ UNCHANGED <<watched, following, events, sent, cfg, pass, budget, add, uiAccounts,
                   recorded, fetched, remainingRequests, timer, ui>>

\* one turn of the loop: a request, its response, the test of next_cursor
RequestPage ==
    /\ probe.op = "GetFollowingIDs"
    /\ probe.out.pc = "loop"
    /\ Len(probe.out.requests) < MaxRequests
    /\ LET cursor == CursorParam(probe.out.nextCursor)
           response == Serve(probe.arg, cursor)
           requests == Append(probe.out.requests, cursor)
       IN  probe' =
             [probe EXCEPT !.out =
                IF ~response.ok
                THEN [pc |-> "returned", nextCursor |-> probe.out.nextCursor,
                      allIDs |-> <<>>, requests |-> requests, err |-> TRUE]
                ELSE IF response.next_cursor = 0
                     THEN [pc |-> "returned", nextCursor |-> probe.out.nextCursor,
                           allIDs |-> probe.out.allIDs \o response.ids,
                           requests |-> requests, err |-> FALSE]
                     ELSE [pc |-> "loop", nextCursor |-> response.next_cursor_str,
                           allIDs |-> probe.out.allIDs \o response.ids,
                           requests |-> requests, err |-> FALSE]]
    /\ UNCHANGED <<watched, following, events, sent, cfg, pass, budget, add, uiAccounts,
                   recorded, fetched, remainingRequests, timer, ui>>

NextCursor ==
    \/ \E n \in 1..MaxCursorPages :
          \E failAt \in 0..n : \E next \in [1..n -> 0..n] :
             StartGetFollowingIDs(CursorServer(failAt, next))
    \/ RequestPage

\* the loop is not suspended for ever: each request is answered or times out
SpecCursor == InitFetch /\ [][NextCursor]_vars /\ WF_vars(RequestPage)

----------------------------------------------------------------------------
(* Properties *)

\* the step of pass p for its current account ends in this transition, with
\* outcome o
StepEndsWith(p, o) ==
    /\ pass[p].pc # "idle"
    /\ pass'[p].outcomes = Append(pass[p].outcomes, o)

\* the rows this transition appends to follow_events
Added == SubSeq(events', Len(events) + 1, Len(events'))

EventIds(E) == {E[i].id : i \in 1..Len(E)}

CountOf(E, acc, uid, type) ==
    Cardinality({i \in 1..Len(E) : E[i].acc = acc /\ E[i].uid = uid /\ E[i].type = type})

\* the type of the latest event of an account about a followed ID
LastType(E, acc, uid) ==
    LET at == {i \in 1..Len(E) : E[i].acc = acc /\ E[i].uid = uid}
    IN  IF at = {} THEN "none" ELSE E[MaxOf(at)].type

\* C1: persisting a detected change is all-or-nothing: when a step that
\* detected a change ends, the events of its delta are in the store exactly
\* when the snapshot holds the fetched set.
C1_AllOrNothing ==
    [][\A p \in Passes : \A o \in Outcomes :
         (pass[p].pc \in {"events", "snapshot", "write", "notify"} /\ StepEndsWith(p, o))
         => ((pass[p].evIds # {} /\ pass[p].evIds \subseteq EventIds(events'))
               <=> GetCurrentFollowings(following', Account(p).id)
                     = Range(pass[p].followings))]_vars

\* C2: when the snapshot write of a step commits, and when a step ends
\* without error (no change, or events and snapshot stored), the stored
\* snapshot of the account is exactly the set of the fetched IDs.
C2_SnapshotEqualsFetched ==
    [][\A p \in Passes :
         ((pass[p].pc = "write" /\ pass'[p].pc = "notify")
            \/ StepEndsWith(p, "ok") \/ StepEndsWith(p, "noChange"))
         => GetCurrentFollowings(following', Account(p).id)
              = Range(pass[p].followings)]_vars

C2_Witness ==
    \E p \in Passes :
        /\ pass[p].pc = "notify"
        /\ pass[p].newFollows # <<>>
        /\ pass[p].unfollows # <<>>
        /\ GetCurrentFollowings(following, Account(p).id) = Range(pass[p].followings)

\* C3: the diff of a step yields newFollows = fetched minus snapshot and
\* unfollows = snapshot minus fetched as sets, disjoint, both empty when the
\* two are equal as sets; the loops of ProcessFollowingChanges yield the same.
C3_Diff ==
    [][\A p \in Passes :
         (pass[p].pc = "read" /\ pass'[p] # pass[p] /\ ~StepEndsWith(p, "readErr"))
         => LET A == GetCurrentFollowings(following, Account(p).id)
                B == Range(pass[p].followings)
                newFollows == pass'[p].newFollows
                unfollows == pass'[p].unfollows
            IN  /\ Range(newFollows) = B \ A
                /\ Range(unfollows) = A \ B
                /\ Range(newFollows) \cap Range(unfollows) = {}
                /\ (A = B) => (newFollows = <<>> /\ unfollows = <<>>)
                /\ Range(ProcessNewFollows(pass[p].followings, A)) = B \ A
                /\ ProcessUnfollows(pass[p].followings, A) = A \ B]_vars

C3_Witness ==
    \E p \in Passes :
        /\ pass[p].pc = "events"
        /\ pass[p].newFollows # <<>>
        /\ pass[p].unfollows # <<>>
        /\ Range(pass[p].newFollows) = Range(pass[p].followings) \ pass[p].current

\* C4: a step that stores its events appends exactly one follow event per ID
\* fetched and not in the snapshot, one unfollow event per ID in the snapshot
\* and not fetched, all of its account, and nothing else.
C4_OneEventPerChange ==
    [][\A p \in Passes :
         (pass[p].pc = "events" /\ pass'[p].pc = "snapshot")
         => LET acc == Account(p).id
                A == pass[p].current
                B == Range(pass[p].followings)
            IN  /\ SubSeq(events', 1, Len(events)) = events
                /\ Len(Added) = Cardinality(B \ A) + Cardinality(A \ B)
                /\ \A i \in 1..Len(Added) : Added[i].acc = acc
                /\ \A id \in B \ A : CountOf(Added, acc, id, "follow") = 1
                /\ \A id \in A \ B : CountOf(Added, acc, id, "unfollow") = 1]_vars

\* C5: when the fetched set equals the stored snapshot, the step ends at the
\* diff: no event, no snapshot write, no notification.
C5_NoChangeNoOp ==
    [][\A p \in Passes :
         (/\ pass[p].pc = "read"
          /\ pass'[p] # pass[p]
          /\ GetCurrentFollowings(following, Account(p).id) = Range(pass[p].followings))
         => /\ Len(pass'[p].outcomes) = Len(pass[p].outcomes) + 1
            /\ pass'[p].pc \in {"fetch", "idle"}
            /\ events' = events
            /\ following' = following
            /\ sent' = sent]_vars

C5_Witness ==
    \E p \in Passes : \E i \in 1..Len(pass[p].outcomes) :
        /\ pass[p].outcomes[i] = "noChange"
        /\ GetCurrentFollowings(following, pass[p].accounts[i].id) # {}
        /\ events = <<>>
        /\ sent = <<>>

\* C6: when a pass fetches for an account the set up to which the previous
\* pass brought the account's events, it appends no event.
C6_SameFetchNoNewEvents ==
    [][\A p \in Passes :
         (/\ pass[p].pc = "events"
          /\ pass'[p] # pass[p]
          /\ <<Account(p).id, Range(pass[p].followings)>> \in recorded)
         => events' = events]_vars

\* C7: the events a step appends never repeat the latest recorded event of
\* the same account and followed ID (no follow after a follow, no unfollow
\* after an unfollow), also when it retries a change whose snapshot write
\* failed.
C7_RetryNoDuplicate ==
    [][\A p \in Passes :
         (pass[p].pc = "events" /\ pass'[p].pc = "snapshot")
         => \A i \in 1..Len(Added) :
               LastType(events, Added[i].acc, Added[i].uid) # Added[i].type]_vars

\* C8: every listed account gets its step whatever the outcome of the steps
\* before it: a pass returns only after the last listed account, each step
\* end leads to the fetch of the next account with fresh locals, and a step
\* changes no snapshot row and no event of another account.
C8_Isolation ==
    /\ [](\A p \in Passes :
            pass[p].pc = "idle" => Len(pass[p].outcomes) = Len(pass[p].accounts))
    /\ [][\A p \in Passes : \A o \in Outcomes :
            StepEndsWith(p, o)
            => /\ pass'[p].pc = (IF pass[p].idx < Len(pass[p].accounts)
                                 THEN "fetch" ELSE "idle")
               /\ pass[p].idx < Len(pass[p].accounts) => pass'[p].idx = pass[p].idx + 1
               /\ pass'[p].followings = <<>>
               /\ pass'[p].current = {}
               /\ pass'[p].newFollows = <<>>
               /\ pass'[p].unfollows = <<>>]_vars
    /\ [][\A p \in Passes :
            (pass[p].pc # "idle" /\ pass'[p] # pass[p])
            => LET acc == Account(p).id
               IN  /\ {r \in following' : r[1] # acc} = {r \in following : r[1] # acc}
                   /\ SelectSeq(events', LAMBDA e : e.acc # acc)
                        = SelectSeq(events, LAMBDA e : e.acc # acc)]_vars

C8_Witness ==
    \E p \in Passes :
        /\ pass[p].pc = "idle"
        /\ Len(pass[p].accounts) = 2
        /\ Len(pass[p].outcomes) = 2
        /\ pass[p].outcomes[1] \in FailedOutcomes
        /\ pass[p].outcomes[2] = "ok"
        /\ sent # <<>>
        /\ \A i \in 1..Len(sent) : sent[i].acc = pass[p].accounts[2].id
        /\ \E i \in 1..Len(events) : events[i].acc = pass[p].accounts[2].id

\* C9: only a completely fetched list is diffed or stored, and a step whose
\* fetch fails changes no snapshot row, no event and sends nothing.
C9_FetchFailureNoUpdate ==
    /\ [](\A p \in Passes :
            pass[p].pc \in {"read", "events", "snapshot", "write", "notify"}
            => (pass[p].complete /\ pass[p].followings = pass[p].served))
    /\ [][\A p \in Passes :
            StepEndsWith(p, "fetchErr")
            => (following' = following /\ events' = events /\ sent' = sent)]_vars

C9_Witness ==
    \E p \in Passes :
        /\ pass[p].outcomes # <<>>
        /\ pass[p].outcomes[Len(pass[p].outcomes)] = "fetchErr"
        /\ ~pass[p].complete
        /\ pass[p].served # <<>>
        /\ GetCurrentFollowings(following, pass[p].accounts[Len(pass[p].outcomes)].id) # {}
        /\ events = <<>>
        /\ sent = <<>>

C11_NotifyAfterCommit ==
    /\ [](\A p \in Passes :
            pass[p].pc = "notify"
            => /\ pass[p].evIds # {}
               /\ pass[p].evIds \subseteq EventIds(events)
               /\ GetCurrentFollowings(following, Account(p).id)
                    = Range(pass[p].followings))
    /\ [][(sent' # sent) => \E p \in Passes : pass[p].pc = "notify"]_vars
    /\ [][\A p \in Passes :
            (StepEndsWith(p, "eventsErr") \/ StepEndsWith(p, "snapshotErr"))
            => sent' = sent]_vars

C11_Witness ==
    \E p \in Passes :
        /\ pass[p].pc = "idle"
        /\ pass[p].outcomes = <<"snapshotErr", "ok">>
        /\ cfg.follow /\ cfg.unfollow /\ cfg.channels # {}
        /\ \E i \in 1..Len(events) : events[i].acc = pass[p].accounts[1].id
        /\ \E i \in 1..Len(events) : events[i].acc = pass[p].accounts[2].id
        /\ sent # <<>>
        /\ \A i \in 1..Len(sent) : sent[i].acc = pass[p].accounts[2].id

\* the messages of a dispatch to one channel in one direction
Messages(S, ch, kind) == {i \in 1..Len(S) : S[i].ch = ch /\ S[i].kind = kind}

\* C12: the dispatch of a persisted change sends to each active channel
\* exactly one follow message iff follow notifications are enabled and IDs
\* were added, exactly one unfollow message iff unfollow notifications are
\* enabled and IDs were removed, each about the step's account and IDs, and
\* sends nothing else; no other step sends anything.
C12_OneMessagePerChannelAndDirection ==
    [][\A p \in Passes :
         IF pass[p].pc = "notify" /\ pass'[p] # pass[p]
         THEN LET acc == Account(p).id
                  added == Range(pass[p].followings) \ pass[p].current
                  removed == pass[p].current \ Range(pass[p].followings)
                  due(ch, kind) ==
                      /\ ch \in cfg.channels
                      /\ \/ kind = "follow" /\ cfg.follow /\ added # {}
                         \/ kind = "unfollow" /\ cfg.unfollow /\ removed # {}
              IN  /\ \A ch \in Range(Channels) : \A kind \in {"follow", "unfollow"} :
                        Cardinality(Messages(sent', ch, kind))
                          = (IF due(ch, kind) THEN 1 ELSE 0)
                  /\ \A i \in 1..Len(sent') :
                        /\ sent'[i].ch \in Range(Channels)
                        /\ sent'[i].kind \in {"follow", "unfollow"}
                        /\ sent'[i].acc = acc
                        /\ Range(sent'[i].ids)
                             = (IF sent'[i].kind = "follow" THEN added ELSE removed)
         ELSE sent' = sent]_vars

C12_Witness ==
    /\ cfg.follow
    /\ ~cfg.unfollow
    /\ cfg.channels = Range(Channels)
    /\ Len(sent) = 2
    /\ \A i \in 1..Len(sent) : sent[i].kind = "follow"
    /\ \E i \in 1..Len(events) : events[i].type = "unfollow"
    /\ \E p \in Passes : pass[p].outcomes # <<>>
                           /\ pass[p].outcomes[Len(pass[p].outcomes)] = "ok"

\* C13: a failed send on one channel does not keep the other channel's send
\* from being made, is not an error of the step (the step ends as
\* successful and the pass goes on), and changes no event and no snapshot
\* row.
C13_ChannelIsolation ==
    [][\A p \in Passes :
         (pass[p].pc = "notify" /\ pass'[p] # pass[p])
         => /\ \A i \in 1..Len(sent') : \A ch \in cfg.channels :
                  (~sent'[i].ok) => Messages(sent', ch, sent'[i].kind) # {}
            /\ StepEndsWith(p, "ok")
            /\ pass'[p].pc = (IF pass[p].idx < Len(pass[p].accounts)
                              THEN "fetch" ELSE "idle")
            /\ events' = events
            /\ following' = following]_vars

C13_Witness ==
    \E p \in Passes : \E i, j \in 1..Len(sent) :
        /\ sent[i].ch = "discord" /\ ~sent[i].ok
        /\ sent[j].ch = "telegram" /\ sent[j].ok
        /\ sent[i].kind = sent[j].kind
        /\ pass[p].pc = "fetch"
        /\ pass[p].idx = 2
        /\ pass[p].outcomes = <<"ok">>
        /\ sent[i].acc = pass[p].accounts[1].id

\* the first page of an upstream whose continuation cursor is zero
EndPage(srv) == CHOOSE k \in 1..Len(srv) :
                    srv[k].next = 0 /\ \A i \in 1..(k - 1) : srv[i].next # 0

\* the IDs of the pages 1..k of an upstream, in the order served
RECURSIVE PagesUpTo(_, _)
PagesUpTo(srv, k) == IF k = 0 THEN <<>> ELSE PagesUpTo(srv, k - 1) \o srv[k].ids

\* C14: when every page up to the first one with a zero cursor is served,
\* one call of GetFollowingIDs returns the IDs of exactly those pages, each
\* as often as served, and nothing of a page past it.
C14_AllPagesUpToEnd ==
    (/\ probe.op = "GetFollowingIDs"
     /\ \A i \in 1..EndPage(probe.arg) : probe.arg[i].ok)
    => /\ ~probe.out.err
       /\ probe.out.IDs = PagesUpTo(probe.arg, EndPage(probe.arg))

C14_Witness ==
    /\ probe.op = "GetFollowingIDs"
    /\ EndPage(probe.arg) = 3
    /\ \A i \in 1..3 : probe.arg[i].ok /\ Len(probe.arg[i].ids) = 2
    /\ Cardinality({probe.arg[i].ids : i \in 1..3}) = 3
    /\ ~probe.out.err
    /\ Len(probe.out.IDs) = 6

\* C15: the list a successful GetFollowingIDs returns holds no ID twice.
C15_Deduplicated ==
    (probe.op = "GetFollowingIDs" /\ ~probe.out.err)
    => \A i, j \in 1..Len(probe.out.IDs) :
          i # j => probe.out.IDs[i] # probe.out.IDs[j]

\* this transition is a call of the store operation op
Calls(op) == probe'.op = op /\ budget' # budget

OtherRows(F, acc) == {r \in F : r[1] # acc}

\* C16: a successful StoreFollowings(acc, L), called on its own, leaves the
\* snapshot of acc equal to the set of the IDs of L, whatever the rows were
\* and whether or not L repeats an ID, and leaves the rows of the other
\* accounts as they were.
C16_StoreFollowingsExact ==
    [][(Calls("StoreFollowings") /\ ~probe'.out.err)
       => LET acc == probe'.arg[1]
              L == probe'.arg[2]
          IN  /\ GetCurrentFollowings(following', acc) = Range(L)
              /\ OtherRows(following', acc) = OtherRows(following, acc)]_vars

C16_Witness ==
    /\ probe.op = "StoreFollowings"
    /\ ~probe.out.err
    /\ probe.arg = <<1, <<"u1", "u1">>>>
    /\ budget = 0
    /\ GetCurrentFollowings(following, 1) = {"u1"}
    /\ GetCurrentFollowings(following, 2) = {"u2"}

\* C17: no two watched accounts share a username or an id; AddWatchedAccount
\* with a username that is present fails and changes nothing; when it
\* succeeds it adds one account under an id no watched account had.
C17_UniqueUsernames ==
    /\ [](\A a, b \in watched :
            (a.username = b.username \/ a.id = b.id) => a = b)
    /\ [][Calls("AddWatchedAccount")
          => /\ (\E a \in watched : a.username = probe'.arg)
                  => (probe'.out.err /\ watched' = watched)
             /\ following' = following
             /\ events' = events
             /\ (~probe'.out.err)
                  => /\ probe'.out.id \notin {a.id : a \in watched}
                     /\ watched' = watched \cup {[id |-> probe'.out.id,
                                                  username |-> probe'.arg]}]_vars

C17_Witness ==
    /\ probe.op = "AddWatchedAccount"
    /\ probe.out.err
    /\ budget = 0
    /\ watched = {[id |-> 1, username |-> "y"]}
    /\ probe.arg = "y"

\* C18: RemoveWatchedAccount of an id that no watched account has fails and
\* changes nothing.
C18_RemoveAbsentFails ==
    [][(Calls("RemoveWatchedAccount") /\ probe'.arg \notin {a.id : a \in watched})
       => (probe'.out.err /\ watched' = watched /\ following' = following
             /\ events' = events)]_vars

\* C19: RemoveWatchedAccount removes the account row and its snapshot rows
\* together or not at all: after success the account is not listed and has
\* no snapshot row, after failure both are as before; the other accounts
\* and their rows are as before in both cases.
C19_RemoveAtomic ==
    [][Calls("RemoveWatchedAccount")
       => LET id == probe'.arg
          IN  /\ IF probe'.out.err
                 THEN watched' = watched /\ following' = following
                 ELSE /\ \A a \in watched' : a.id # id
                      /\ GetCurrentFollowings(following', id) = {}
              /\ {a \in watched' : a.id # id} = {a \in watched : a.id # id}
              /\ OtherRows(following', id) = OtherRows(following, id)]_vars

C19_Witness ==
    /\ probe.op = "RemoveWatchedAccount"
    /\ ~probe.out.err
    /\ probe.arg = 1
    /\ budget = MaxCalls - 1
    /\ watched = {[id |-> 2, username |-> "y"]}
    /\ following = {<<2, "u1">>, <<2, "u2">>}

\* C20: after RemoveWatchedAccount(id) has removed a watched account, the
\* log holds no event of that account.
C20_RemoveCascadesToEvents ==
    [][(/\ Calls("RemoveWatchedAccount")
        /\ ~probe'.out.err
        /\ probe'.arg \in {a.id : a \in watched})
       => \A i \in 1..Len(events') : events'[i].acc # probe'.arg]_vars

\* C21: GetCurrentFollowings of an account without snapshot rows, watched or
\* not, returns the empty set and no error unless the query itself fails.
C21_NoRowsIsEmptyNotError ==
    (/\ probe.op = "GetCurrentFollowings"
     /\ ~probe.arg[2]
     /\ \A r \in following : r[1] # probe.arg[1])
    => (~probe.out.err /\ probe.out.rows = {})

\* a watched account before its first fetch, and an id no account has
C21_Witness ==
    /\ probe.op = "GetCurrentFollowings"
    /\ ~probe.arg[2]
    /\ ~probe.out.err
    /\ probe.out.rows = {}
    /\ \/ /\ probe.arg[1] \in {a.id : a \in watched}
          /\ following # {}
       \/ /\ probe.arg[1] \notin {a.id : a \in watched}
          /\ watched # {}

\* C22: the event log is append-only: a transition that removes no account
\* leaves every existing event in place and unchanged, and every event it
\* appends gets an id greater than every id of the log before and than the
\* ids appended before it.  (The formula holds under Spec and SpecPass too:
\* the pass and the add flow reach the log through the same operations.)
C22_AppendOnly ==
    [][(watched \subseteq watched')
       => /\ Len(events') >= Len(events)
          /\ SubSeq(events', 1, Len(events)) = events
          /\ \A i \in Len(events) + 1 .. Len(events') : \A j \in 1..(i - 1) :
                events'[i].id > events'[j].id]_vars

C22_Witness ==
    /\ probe.op = "StoreFollowEvents"
    /\ ~probe.out.err
    /\ budget = 0
    /\ Len(events) = 4
    /\ \A i \in 1..4 : events[i].id = i
    /\ events[1].acc # events[3].acc

\* C23: a pass works on the list GetWatchedAccounts returned when it started:
\* the list stays as it is while the pass runs, whatever is added or removed
\* meanwhile; the steps take the listed accounts one by one in order, one
\* outcome each, and the pass returns with one outcome per listed account.
C23_ListedOnceEach ==
    /\ [][\A p \in Passes :
            (pass[p].pc = "idle" /\ pass'[p].pc # "idle")
            => (pass'[p].accounts = SortById(watched) /\ pass'[p].idx = 1
                  /\ pass'[p].outcomes = <<>>)]_vars
    /\ [][\A p \in Passes :
            (pass[p].pc # "idle" /\ pass'[p] # pass[p])
            => /\ pass'[p].accounts = pass[p].accounts
               /\ \/ pass'[p].idx = pass[p].idx /\ pass'[p].outcomes = pass[p].outcomes
                  \/ /\ Len(pass'[p].outcomes) = Len(pass[p].outcomes) + 1
                     /\ pass'[p].idx = (IF pass[p].idx < Len(pass[p].accounts)
                                        THEN pass[p].idx + 1 ELSE pass[p].idx)]_vars
    /\ [](\A p \in Passes :
            IF pass[p].pc = "idle"
            THEN Len(pass[p].outcomes) = Len(pass[p].accounts)
            ELSE pass[p].idx = Len(pass[p].outcomes) + 1
                   /\ pass[p].idx <= Len(pass[p].accounts))

\* the second listed account was removed while the first was at work, and
\* its step runs all the same
C23_Witness ==
    \E p \in Passes :
        /\ pass[p].pc = "notify"
        /\ pass[p].idx = 2
        /\ Len(pass[p].accounts) = 2
        /\ Len(pass[p].outcomes) = 1
        /\ pass[p].accounts[2] \notin watched
        /\ pass[p].accounts[1] \in watched

\* C24: once the add flow and the pass have finished, none of them with an
\* error, the snapshot of every watched account equals the set the most
\* recent fetch for that account returned, however their steps interleaved.
C24_SnapshotIsLatestFetch ==
    (/\ add.pc = "idle"
     /\ add.result \in {"none", "ok"}
     /\ \A p \in Passes :
           /\ pass[p].pc = "idle"
           /\ \A i \in 1..Len(pass[p].outcomes) : pass[p].outcomes[i] \in {"ok", "noChange"})
    => \A a \in watched : \A r \in fetched :
          r[1] = a => GetCurrentFollowings(following, a.id) = r[2]

\* C25: after a response whose rate-limit header strconv.Atoi parses,
\* whatever the status, RemainingRequests() returns the header's value; a
\* response without the header or with one that does not parse, and a request
\* without response, leave the counter as it was.
C25_CounterFollowsHeader ==
    [][(probe'.op = "doRequest")
       => LET remaining == probe'.arg.remaining
              parsed == /\ ~probe'.arg.transportFails
                        /\ remaining.present
                        /\ ~Atoi(remaining).err
          IN  IF parsed
              THEN RemainingRequests' = remaining.value
              ELSE RemainingRequests' = RemainingRequests]_vars

\* C26: the first pass starts when one check interval has elapsed since
\* startup, and each later pass one check interval after the pass before it
\* started.
C26_FixedInterval ==
    timer.on
    => \A k \in 1..Len(timer.started) :
          timer.started[k] = (IF k = 1 THEN 0 ELSE timer.started[k - 1])
                               + timer.checkInterval

\* C27: at most one pass is at work at any time, and no two passes hold the
\* same delta against the same snapshot of an account, both with their
\* events stored.
C27_OnePassAtATime ==
    /\ Cardinality({p \in DOMAIN pass : pass[p].pc # "idle"}) <= 1
    /\ \A p, q \in DOMAIN pass :
          (/\ p # q
           /\ pass[p].pc \in {"snapshot", "write", "notify"}
           /\ pass[q].pc \in {"snapshot", "write", "notify"}
           /\ Account(p) = Account(q))
          => ~(/\ pass[p].current = pass[q].current
               /\ pass[p].newFollows = pass[q].newFollows
               /\ pass[p].unfollows = pass[q].unfollows)

\* the set the most recent fetch for an account returned, if there was one
FetchedFor(account) == {r[2] : r \in {q \in fetched : q[1] = account}}

\* C28: a pass calls GetFollowingIDs once per listed account: after the
\* fetch, failed or not, the pass comes to a fetch again only for the next
\* listed account, and a failed step ends with its outcome.  A pass that
\* lists the accounts lists again every watched account whose step failed in
\* the pass before, and a step of it that succeeds leaves the snapshot equal
\* to the set it fetched.
C28_RetryByNextPass ==
    /\ [][\A p \in Passes :
            (pass'[p] # pass[p] /\ pass'[p].pc = "fetch")
            => \/ pass[p].pc = "idle" /\ pass'[p].idx = 1
               \/ pass[p].pc # "idle" /\ pass'[p].idx = pass[p].idx + 1]_vars
    /\ [][\A p \in Passes :
            (pass[p].pc = "idle" /\ pass'[p].pc # "idle")
            => \A i \in 1..Len(pass[p].outcomes) :
                  (pass[p].outcomes[i] \in FailedOutcomes /\ pass[p].accounts[i] \in watched)
                  => pass[p].accounts[i] \in Range(pass'[p].accounts)]_vars
    /\ [][\A p \in Passes :
            (StepEndsWith(p, "ok") \/ StepEndsWith(p, "noChange"))
            => FetchedFor(Account(p))
                 = {GetCurrentFollowings(following', Account(p).id)}]_vars

\* the first pass stored the follow event of u1 and failed at the snapshot;
\* the second pass took the account again and brought the snapshot up
C28_Witness ==
    \E p \in Passes :
        /\ pass[p].pc = "idle"
        /\ pass[p].accounts = <<[id |-> 1, username |-> "x"]>>
        /\ pass[p].outcomes = <<"ok">>
        /\ budget = MaxSteps - 2
        /\ Len(events) = 2
        /\ events[1].uid = events[2].uid
        /\ events[1].type = events[2].type
        /\ GetCurrentFollowings(following, 1) = {events[2].uid}

\* the set the events of an account yield when replayed in the order of
\* their ids on top of S: a follow adds the ID, an unfollow removes it
RECURSIVE Replay(_, _, _)
Replay(E, acc, S) ==
    IF E = <<>> THEN S
    ELSE Replay(Tail(E), acc,
                IF Head(E).acc # acc THEN S
                ELSE IF Head(E).type = "follow" THEN S \cup {Head(E).uid}
                     ELSE S \ {Head(E).uid})

\* no step of the add flow or of a pass is under way for the account
NotInFlight(acc) ==
    /\ add.pc = "idle" \/ add.account.id # acc
    /\ \A p \in DOMAIN pass : pass[p].pc = "idle" \/ Account(p).id # acc

\* C29: the snapshot of every watched account with no operation in flight
\* equals the replay of its events from the empty set.
C29_SnapshotIsReplay ==
    \A a \in watched :
        NotInFlight(a.id)
        => GetCurrentFollowings(following, a.id) = Replay(events, a.id, {})

\* C30: a step that stores its events appends, for every ID that entered the
\* fetched set since the snapshot, a follow event, and for every ID that
\* left it an unfollow event, each with an id above every id of the log so
\* far, whatever events of that ID the log holds already; with the snapshot
\* brought to the fetched set by each successful step, an ID that enters,
\* leaves and enters again in three passes gets a follow, an unfollow and a
\* follow event with increasing ids.
C30_FlipsGiveSeparateEvents ==
    /\ [][\A p \in Passes :
            (pass[p].pc = "events" /\ pass'[p].pc = "snapshot")
            => LET acc == Account(p).id
                   A == GetCurrentFollowings(following, acc)
                   B == Range(pass[p].followings)
                   appended(id, type) ==
                       \E i \in Len(events) + 1 .. Len(events') :
                          /\ events'[i].acc = acc
                          /\ events'[i].uid = id
                          /\ events'[i].type = type
                          /\ \A j \in 1..Len(events) : events'[i].id > events[j].id
               IN  /\ \A id \in B \ A : appended(id, "follow") /\ ~appended(id, "unfollow")
                   /\ \A id \in A \ B : appended(id, "unfollow") /\ ~appended(id, "follow")
                   /\ SubSeq(events', 1, Len(events)) = events]_vars
    /\ [][\A p \in Passes :
            StepEndsWith(p, "ok")
            => GetCurrentFollowings(following', Account(p).id)
                 = Range(pass[p].followings)]_vars

\* three successful passes: u1 entered, left and entered again
C30_Witness ==
    \E p \in Passes :
        /\ budget = MaxFlips - 3
        /\ pass[p].pc = "idle"
        /\ pass[p].outcomes = <<"ok">>
        /\ Len(events) = 3
        /\ \A i \in 1..3 : events[i].uid = "u1" /\ events[i].acc = 1
        /\ events[1].type = "follow"
        /\ events[2].type = "unfollow"
        /\ events[3].type = "follow"
        /\ events[1].id < events[2].id
        /\ events[2].id < events[3].id
        /\ following = {<<1, "u1">>}

\* C31: the message of every channel and direction for n changed IDs
\* enumerates the first min(n, EnumerationCap) IDs of the list in the list's
\* order, is built with at most that many lookups, and states n as its count.
C31_EnumerationCapped ==
    probe.op = "Notify"
    => LET ids == probe.arg[3]
           m == probe.out.message
           k == IF Len(ids) < EnumerationCap THEN Len(ids) ELSE EnumerationCap
       IN  /\ Len(m.lines) = k
           /\ \A i \in 1..k : m.lines[i].n = i /\ m.lines[i].user = ids[i]
           /\ Len(probe.out.lookups) <= k
           /\ m.count = Len(ids)

\* a truncated Discord message: more IDs than the cap, the count is the full one
C31_Witness ==
    /\ probe.op = "Notify"
    /\ probe.arg[1] = "discord"
    /\ probe.arg[2] = "unfollow"
    /\ Len(probe.arg[3]) > EnumerationCap
    /\ Len(probe.out.message.lines) = EnumerationCap
    /\ probe.out.message.count = Len(probe.arg[3])
    /\ probe.out.message.lines[EnumerationCap].user = probe.arg[3][EnumerationCap]

\* C32: an ID whose lookup fails is listed by its bare ID, every other ID of
\* the first EnumerationCap is listed enriched, and the message goes to the
\* send whatever lookups failed: the error the notifier returns is the send's
\* alone; the notifier touches neither the store nor the pass.
C32_EnrichmentBestEffort ==
    /\ probe.op = "Notify"
       => LET ids == probe.arg[3]
              failing == probe.arg[4]
              m == probe.out.message
              k == IF Len(ids) < EnumerationCap THEN Len(ids) ELSE EnumerationCap
          IN  /\ Len(m.lines) = k
              /\ \A i \in 1..k :
                    /\ m.lines[i].user = ids[i]
                    /\ m.lines[i].shown = (IF ids[i] \in failing THEN "id" ELSE "name")
              /\ probe.out.err = probe.arg[5]
    /\ following = {} /\ events = <<>> /\ pass = [p \in Passes |-> IdlePass]

\* a lookup in the middle fails, the IDs after it are enriched, the send succeeds
C32_Witness ==
    /\ probe.op = "Notify"
    /\ probe.arg[1] = "telegram"
    /\ Len(probe.out.message.lines) >= 3
    /\ probe.arg[4] = {probe.arg[3][2]}
    /\ probe.out.message.lines[2].shown = "id"
    /\ probe.out.message.lines[3].shown = "name"
    /\ ~probe.out.err

\* the pages from page i on lead, within `fuel` pages, to a page whose
\* next_cursor is zero or whose request fails
RECURSIVE ChainEnds(_, _, _)
ChainEnds(srv, i, fuel) ==
    IF fuel = 0 THEN FALSE
    ELSE IF ~srv[i].ok \/ srv[i].next_cursor = 0 THEN TRUE
         ELSE ChainEnds(srv, srv[i].next_cursor, fuel - 1)

\* the call at hand is served, sooner or later, a page that signals the end
EndIsServed ==
    /\ probe.op = "GetFollowingIDs"
    /\ ChainEnds(probe.arg, 1, Len(probe.arg))

\* C33: against an upstream that serves a page signalling the end,
\* GetFollowingIDs returns; the first request carries no cursor, every later
\* one the next_cursor_str of the response before it, and no request is made
\* twice, so there is one request per page.
C33_Terminates ==
    /\ EndIsServed ~> (probe.op = "GetFollowingIDs" /\ probe.out.pc = "returned")
    /\ [](EndIsServed
          => LET r == probe.out.requests
             IN  /\ \A k \in 1..Len(r) :
                       r[k] = (IF k = 1 THEN "none"
                               ELSE Serve(probe.arg, r[k - 1]).next_cursor_str)
                 /\ \A j, k \in 1..Len(r) : r[j] = r[k] => j = k
                 /\ Len(r) <= Len(probe.arg))

\* a call over three pages has returned after three requests
C33_Witness ==
    /\ EndIsServed
    /\ probe.out.pc = "returned"
    /\ ~probe.out.err
    /\ probe.out.requests = <<"none", "2", "3">>
    /\ probe.out.allIDs = <<1, 2, 3>>

\* C36: when the add flow has ended with an error, the store does not hold
\* the account the flow inserted.
C36_AddAllOrNothing ==
    (add.pc = "idle" /\ add.result \notin {"none", "ok"})
    => add.account \notin watched

\* C37: the id AddWatchedAccount assigns is one no account had before: the
\* account a step adds has no event in the log and no snapshot row.
C37_FreshIds ==
    [][\A a \in watched' \ watched :
          /\ \A i \in 1..Len(events) : events[i].acc # a.id
          /\ GetCurrentFollowings(following, a.id) = {}]_vars

\* C38: every snapshot row belongs to a watched account, and a step appends
\* events only for watched accounts.
C38_RowsOfWatchedOnly ==
    /\ [](\A row \in following : \E a \in watched : a.id = row[1])
    /\ [][\A i \in Len(events) + 1 .. Len(events') :
             \E a \in watched : a.id = events'[i].acc]_vars

\* C34: a step that puts the error of a failed add or remove on display
\* leaves the presentation layer in the Normal mode.
C34_FailureReturnsToNormal ==
    [][(ui'.error # ui.error /\ ui'.error # <<>>) => ui'.mode = "Normal"]_vars

\* C35: a remove reports "not found" for a username only when the store
\* holds no watched account of that username.
C35_RemoveWorksFromStore ==
    [][\A u \in Usernames :
          (ui'.error = <<"not found", u>> /\ ui'.error # ui.error)
          => \A a \in watched : a.username # u]_vars

====
